---------------------------- MODULE Spec2Model ----------------------------
(***************************************************************************)
(* Model of src/core/messages.rs of IBKR-API-Rust: the length-prefixed     *)
(* message framing (make_message / read_msg), the NUL-terminated field     *)
(* codec (make_field / read_fields) and the two message-id enumerations    *)
(* with their derived FromPrimitive lookups.                               *)
(*                                                                         *)
(* Bytes and characters are numbers (a byte 0..255, a character its code   *)
(* point); a Vec<u8>, a &str and a String are sequences of them.  A usize  *)
(* is kept as its 8 big-endian bytes (64-bit build), because the values an *)
(* `i32 as usize` cast produces for a negative i32 do not fit a machine    *)
(* integer of TLC.                                                         *)
(***************************************************************************)
EXTENDS Integers, Sequences, FiniteSets

VARIABLES
    pc,         \* which call the driver made last
    msg,        \* make_message: the &str argument, as its bytes
    enc,        \* make_message: the outcome (returned Vec<u8>, or a panic)
    buf,        \* read_msg: the &[u8] argument
    ret,        \* read_msg: the outcome (returned triple, or a panic)
    buf2,       \* second read_msg call: argument
    ret2,       \* second read_msg call: outcome
    sent,       \* receiver harness: the payloads the peer framed
    wire,       \* receiver harness: bytes of the stream not yet arrived
    held,       \* receiver harness: the receiver's held buffer
    delivered,  \* receiver harness: payloads handed up, in order
    val,        \* make_field: the &dyn Any argument, as [ty, v]
    vals,       \* field values formatted into `payload`
    payload,    \* read_fields: the &str argument / make_field's String
    fields,     \* read_fields: the outcome
    dir,        \* registry: which enumeration was queried
    code,       \* registry: the i32 given to from_i32
    kind,       \* registry: the Option<variant> it returned
    variant     \* registry: the variant whose discriminant was taken

vars == <<pc, msg, enc, buf, ret, buf2, ret2, sent, wire, held, delivered,
          val, vals, payload, fields, dir, code, kind, variant>>

frameVars == <<msg, enc, buf, ret>>
pairVars  == <<buf2, ret2>>
recvVars  == <<sent, wire, held, delivered>>
fieldVars == <<val, vals, payload, fields>>
regVars   == <<dir, code, kind, variant>>

---------------------------------------------------------------------------
(* Bounds of the model *)

\* longest buffer handed to read_msg
MaxBuf == 6
\* longest payload handed to make_message
MaxPayload == 2
\* longest buffer of the two-call comparison
MaxPairLen == 5
\* most frames in one pipelined stream, and longest payload in it
MaxMsgs == 2
MaxRecvPayload == 1
\* most fields in a payload, longest string field, longest raw payload
MaxFields == 3
MaxFieldLen == 2
MaxRawLen == 4
\* registry codes looked up: -MaxNegCode .. MaxCode
MaxNegCode == 3
MaxCode == 106

\* byte values used: NUL, two small lengths, 'A', a continuation byte
\* (top bit set), a two-byte UTF-8 lead
Bytes == {0, 1, 2, 65, 128, 195}
AsciiBytes == {0, 65}
PairBytes == {0, 1, 65}

SeqsUpTo(S, n) == UNION {[1..k -> S] : k \in 0..n}

---------------------------------------------------------------------------
(* Library behaviour the source relies on *)

IsCont(b) == b >= 128 /\ b <= 191

\* core::str::from_utf8's validation (run_utf8_validation): TRUE iff bs is
\* well-formed UTF-8
RECURSIVE utf8_valid(_)
utf8_valid(bs) ==
    IF bs = <<>> THEN TRUE
    ELSE LET b == bs[1]
             n == Len(bs)
         IN  IF b < 128 THEN utf8_valid(Tail(bs))
             ELSE IF b >= 194 /\ b <= 223
                  THEN n >= 2 /\ IsCont(bs[2])
                       /\ utf8_valid(SubSeq(bs, 3, n))
             ELSE IF b >= 224 /\ b <= 239
                  THEN n >= 3
                       /\ \/ b = 224 /\ bs[2] >= 160 /\ bs[2] <= 191
                          \/ b >= 225 /\ b <= 236 /\ IsCont(bs[2])
                          \/ b = 237 /\ bs[2] >= 128 /\ bs[2] <= 159
                          \/ b >= 238 /\ IsCont(bs[2])
                       /\ IsCont(bs[3])
                       /\ utf8_valid(SubSeq(bs, 4, n))
             ELSE IF b >= 240 /\ b <= 244
                  THEN n >= 4
                       /\ \/ b = 240 /\ bs[2] >= 144 /\ bs[2] <= 191
                          \/ b >= 241 /\ b <= 243 /\ IsCont(bs[2])
                          \/ b = 244 /\ bs[2] >= 128 /\ bs[2] <= 143
                       /\ IsCont(bs[3]) /\ IsCont(bs[4])
                       /\ utf8_valid(SubSeq(bs, 5, n))
             ELSE FALSE

\* AsAsciiStr::as_ascii_str: Ok iff every byte is below 0x80
as_ascii_str_ok(bs) == \A i \in 1..Len(bs) : bs[i] < 128

\* i32::to_le_bytes and i32::to_be_bytes of a non-negative i32
to_le_bytes(n) ==
    <<n % 256, (n \div 256) % 256, (n \div 65536) % 256, (n \div 16777216) % 256>>

to_be_bytes(n) ==
    <<(n \div 16777216) % 256, (n \div 65536) % 256, (n \div 256) % 256, n % 256>>

\* `i32::from_be_bytes(b) as usize`: the cast sign-extends to 64 bits
usize_from_i32_be(b) ==
    (IF b[1] >= 128 THEN <<255, 255, 255, 255>> ELSE <<0, 0, 0, 0>>) \o b

\* a small natural as a usize
usize_of(n) == <<0, 0, 0, 0>> \o to_be_bytes(n)

\* a < b on usize values
RECURSIVE usize_lt(_, _)
usize_lt(a, b) ==
    IF a = <<>> THEN FALSE
    ELSE IF a[1] # b[1] THEN a[1] < b[1]
    ELSE usize_lt(Tail(a), Tail(b))

\* the natural a usize holds, for one known to be at most a buffer length
usize_to_nat(s) == s[5] * 16777216 + s[6] * 65536 + s[7] * 256 + s[8]

Panic == [kind |-> "panic", size |-> <<>>, text |-> <<>>, rest |-> <<>>]

---------------------------------------------------------------------------
(* read_msg *)

\* line 268: buf.len() - 4 >= size
frame_complete(b, size) == ~ usize_lt(usize_of(Len(b) - 4), size)

\* line 271: buf[4 + size..]
\* (variant: the 4 prefix bytes not skipped)
rest_of_no_prefix(b, n) == SubSeq(b, n + 1, Len(b))

rest_of(b, n) == SubSeq(b, 4 + n + 1, Len(b))

\* line 273: the whole buffer is handed back
\* (variant: the prefix that was parsed is dropped)
unconsumed_tail(b) == SubSeq(b, 5, Len(b))

unconsumed(b) == b

read_msg(b) ==
    IF Len(b) < 4
    THEN [kind |-> "ret", size |-> usize_of(0), text |-> <<>>, rest |-> b]
    ELSE LET size == usize_from_i32_be(SubSeq(b, 1, 4))
         IN  IF frame_complete(b, size)
             THEN LET n == usize_to_nat(size)
                      bytes == SubSeq(b, 5, 4 + n)
                  IN  IF utf8_valid(bytes)
                      THEN [kind |-> "ret", size |-> size, text |-> bytes,
                            rest |-> rest_of(b, n)]
                      ELSE Panic
             ELSE [kind |-> "ret", size |-> size, text |-> <<>>,
                   rest |-> unconsumed(b)]

---------------------------------------------------------------------------
(* make_message *)

\* line 245: the length prefix
\* (variant: little-endian)
len_prefix_le(m) == to_le_bytes(Len(m))

len_prefix(m) == to_be_bytes(Len(m))

NoFrame == [kind |-> "none", bytes |-> <<>>]

make_message(m) ==
    IF ~ as_ascii_str_ok(m)
    THEN [kind |-> "panic", bytes |-> <<>>]
    ELSE LET tmp == len_prefix(m) \o m
         IN  IF read_msg(tmp).kind = "panic"
             THEN [kind |-> "panic", bytes |-> <<>>]
             ELSE [kind |-> "ok", bytes |-> tmp]

---------------------------------------------------------------------------
(* Initial state: no call made yet *)

NoRet == [kind |-> "none", size |-> <<>>, text |-> <<>>, rest |-> <<>>]
NoVal == [ty |-> "none", v |-> 0]
NoFields == [kind |-> "none", v |-> <<>>]

Init ==
    /\ pc = "idle"
    /\ msg = <<>> /\ enc = NoFrame /\ buf = <<>> /\ ret = NoRet
    /\ buf2 = <<>> /\ ret2 = NoRet
    /\ sent = <<>> /\ wire = <<>> /\ held = <<>> /\ delivered = <<>>
    /\ val = NoVal /\ vals = <<>> /\ payload = <<>> /\ fields = NoFields
    /\ dir = "none" /\ code = 0 /\ kind = "None" /\ variant = "None"

---------------------------------------------------------------------------
(* Framing: one make_message call, one read_msg call *)

\* a &str is valid UTF-8 by construction
Payloads == {p \in SeqsUpTo(Bytes, MaxPayload) : utf8_valid(p)}
Buffers == SeqsUpTo(Bytes, MaxBuf)

\* make_message(p)
Encode ==
    /\ pc = "idle"
    /\ \E p \in Payloads :
        /\ msg' = p
        /\ enc' = make_message(p)
        /\ buf' = <<>> /\ ret' = NoRet
        /\ pc' = "made"
        /\ UNCHANGED <<pairVars, recvVars, fieldVars, regVars>>

\* read_msg(make_message(p)): the frame just made is read back
DecodeOwn ==
    /\ pc = "made"
    /\ enc.kind = "ok"
    /\ buf' = enc.bytes
    /\ ret' = read_msg(enc.bytes)
    /\ pc' = "roundtrip"
    /\ UNCHANGED <<msg, enc, pairVars, recvVars, fieldVars, regVars>>

\* read_msg(b) on bytes from the transport
Decode ==
    /\ pc = "idle"
    /\ \E b \in Buffers :
        /\ buf' = b
        /\ ret' = read_msg(b)
        /\ msg' = <<>> /\ enc' = NoFrame
        /\ pc' = "read"
        /\ UNCHANGED <<pairVars, recvVars, fieldVars, regVars>>

FrameNext == Encode \/ DecodeOwn \/ Decode

FrameSpec == Init /\ [][FrameNext]_vars

---------------------------------------------------------------------------
(* Claims about framing *)

\* the number four bytes spell, most significant first
BEValue(b) == ((b[1] * 256 + b[2]) * 256 + b[3]) * 256 + b[4]

\* the usize s is the natural n
SizeIs(s, n) ==
    /\ Len(s) = 8
    /\ SubSeq(s, 1, 4) = <<0, 0, 0, 0>>
    /\ BEValue(SubSeq(s, 5, 8)) = n

\* the unsigned 32-bit length that b's first four bytes declare exceeds n
DeclaredExceeds(b, n) ==
    \/ b[1] > n \div 16777216
    \/ /\ b[1] = n \div 16777216
       /\ (b[2] * 256 + b[3]) * 256 + b[4] > n % 16777216

\* C1: for every payload of bytes 0x00-0x7F (the empty one included),
\* make_message returns the 4-byte big-endian byte length followed by the
\* payload, and read_msg of that frame returns that length, that payload and
\* an empty remainder.
C1_RoundTrip ==
    /\ (pc \in {"made", "roundtrip"} /\ as_ascii_str_ok(msg)) =>
          /\ enc.kind = "ok"
          /\ Len(enc.bytes) = 4 + Len(msg)
          /\ BEValue(SubSeq(enc.bytes, 1, 4)) = Len(msg)
          /\ SubSeq(enc.bytes, 5, Len(enc.bytes)) = msg
    /\ (pc = "made" /\ as_ascii_str_ok(msg)) => ENABLED DecodeOwn
    /\ pc = "roundtrip" =>
          /\ ret.kind = "ret"
          /\ SizeIs(ret.size, Len(msg))
          /\ ret.text = msg
          /\ ret.rest = <<>>

C1_Witness ==
    /\ pc = "roundtrip"
    /\ msg = <<65, 0>>
    /\ buf = <<0, 0, 0, 2, 65, 0>>
    /\ ret.text = msg /\ ret.rest = <<>>

\* C2: a buffer shorter than 4 bytes, or one whose declared length exceeds
\* buf.len() - 4, makes read_msg return an empty payload and the whole input
\* buffer, byte for byte, as the remainder.
C2_IncompleteConsumesNothing ==
    (/\ pc \in {"read", "roundtrip"}
     /\ \/ Len(buf) < 4
        \/ DeclaredExceeds(buf, Len(buf) - 4)) =>
        /\ ret.kind = "ret"
        /\ ret.text = <<>>
        /\ ret.rest = buf

C2_Witness ==
    /\ pc = "read"
    /\ Len(buf) = 6
    /\ buf[1] >= 128
    /\ DeclaredExceeds(buf, Len(buf) - 4)
    /\ ret.text = <<>> /\ ret.rest = buf

\* C4: make_message never aborts: a payload with a byte outside 0x00-0x7F
\* yields an error value returned to the caller and no frame, and a payload
\* of bytes 0x00-0x7F yields a frame.
C4_EncodeReturnsError ==
    pc = "made" =>
        /\ enc.kind # "panic"
        /\ as_ascii_str_ok(msg) <=> enc.kind = "ok"

\* C9: read_msg returns to its caller for every buffer: an incomplete
\* outcome that hands the buffer back, or the payload buf[4..4+n] with the
\* remainder buf[4+n..]; it never aborts.
C9_DecodeNeverAborts ==
    pc \in {"read", "roundtrip"} =>
        /\ ret.kind # "panic"
        /\ \/ ret.text = <<>> /\ ret.rest = buf
           \/ /\ Len(buf) >= 4
              /\ Len(buf) = 4 + Len(ret.text) + Len(ret.rest)
              /\ buf = SubSeq(buf, 1, 4) \o ret.text \o ret.rest
              /\ SizeIs(ret.size, Len(ret.text))

---------------------------------------------------------------------------
(* Two read_msg calls whose returned triples are compared *)

PairBuffers == SeqsUpTo(PairBytes, MaxPairLen)

ReadFirst ==
    /\ pc = "idle"
    /\ \E b \in PairBuffers :
        /\ buf' = b
        /\ ret' = read_msg(b)
    /\ pc' = "first"
    /\ UNCHANGED <<msg, enc, pairVars, recvVars, fieldVars, regVars>>

ReadSecond ==
    /\ pc = "first"
    /\ \E b \in PairBuffers :
        /\ buf2' = b
        /\ ret2' = read_msg(b)
    /\ pc' = "second"
    /\ UNCHANGED <<frameVars, recvVars, fieldVars, regVars>>

PairNext == ReadFirst \/ ReadSecond

PairSpec == Init /\ [][PairNext]_vars

\* b begins with a complete frame
BeginsWithFrame(b) == Len(b) >= 4 /\ ~ DeclaredExceeds(b, Len(b) - 4)

\* C10: the triple read_msg returns identifies the outcome: a buffer that
\* begins with a complete frame and a buffer that holds no complete frame
\* never get the same (size, payload, remainder).
C10_TripleIdentifiesOutcome ==
    (/\ pc = "second"
     /\ BeginsWithFrame(buf)
     /\ ~ BeginsWithFrame(buf2)) => ret # ret2

---------------------------------------------------------------------------
(* A receiver fed the pipelined stream in transport chunks: it appends the *)
(* chunk to its held buffer, calls read_msg, keeps the remainder, and      *)
(* delivers the payload when the remainder is shorter than the input.      *)

RecvPayloads == SeqsUpTo(AsciiBytes, MaxRecvPayload)

RECURSIVE Stream(_)
Stream(ps) ==
    IF ps = <<>> THEN <<>> ELSE make_message(ps[1]).bytes \o Stream(Tail(ps))

\* the peer frames p1..pk with make_message and writes them back to back
Send ==
    /\ pc = "idle"
    /\ \E ps \in SeqsUpTo(RecvPayloads, MaxMsgs) :
        /\ \A i \in 1..Len(ps) : make_message(ps[i]).kind = "ok"
        /\ sent' = ps
        /\ wire' = Stream(ps)
    /\ held' = <<>> /\ delivered' = <<>>
    /\ pc' = "streaming"
    /\ UNCHANGED <<frameVars, pairVars, fieldVars, regVars>>

\* the transport hands over the next chunk, of any length
Arrive ==
    /\ pc = "streaming"
    /\ wire # <<>>
    /\ \E n \in 1..Len(wire) :
        /\ held' = held \o SubSeq(wire, 1, n)
        /\ wire' = SubSeq(wire, n + 1, Len(wire))
    /\ UNCHANGED <<pc, sent, delivered, frameVars, pairVars, fieldVars, regVars>>

\* one read_msg call on the held buffer
RecvStep ==
    /\ pc = "streaming"
    /\ LET r == read_msg(held)
       IN  /\ pc' = IF r.kind = "panic" THEN "panicked" ELSE pc
           /\ held' = IF r.kind = "panic" THEN held ELSE r.rest
           /\ delivered' = IF r.kind = "ret" /\ Len(r.rest) < Len(held)
                           THEN Append(delivered, r.text)
                           ELSE delivered
    /\ UNCHANGED <<sent, wire, frameVars, pairVars, fieldVars, regVars>>

RecvNext == Send \/ Arrive \/ RecvStep

\* the receiver keeps calling read_msg while that makes progress
RecvSpec == Init /\ [][RecvNext]_vars /\ WF_vars(RecvStep)

IsPrefix(a, b) == Len(a) <= Len(b) /\ a = SubSeq(b, 1, Len(a))

RecvSafe ==
    pc # "idle" =>
        /\ pc = "streaming"
        /\ IsPrefix(delivered, sent)
        /\ Stream(delivered) \o held \o wire = Stream(sent)
        /\ (wire = <<>> /\ held = <<>>) => delivered = sent

RecvFirstOfTwo ==
    (/\ Len(sent) = 2
     /\ delivered = <<>>
     /\ held = Stream(sent)
     /\ RecvStep) =>
        /\ delivered' = <<sent[1]>>
        /\ held' = make_message(sent[2]).bytes

\* C3: whatever the payloads p1..pk and however the stream
\* make_message(p1) ++ ... ++ make_message(pk) is cut into chunks, the
\* receiver delivers a prefix of p1..pk at every moment, nothing lost,
\* duplicated or split; once every chunk has arrived it eventually holds an
\* empty buffer, having delivered exactly p1..pk; and read_msg of two frames
\* back to back returns p1 and leaves make_message(p2).
C3_PipelinedChunked ==
    /\ []RecvSafe
    /\ [][RecvFirstOfTwo]_vars
    /\ (pc = "streaming" /\ wire = <<>>) ~> (held = <<>> /\ delivered = sent)

C3_Witness ==
    /\ pc = "streaming"
    /\ sent = <<<<65>>, <<>>>>
    /\ wire = <<>> /\ held = <<>>
    /\ delivered = sent

---------------------------------------------------------------------------
(* make_field and read_fields.  A character is its code point: NUL is 0,   *)
(* '-' is 45, '0'..'9' are 48..57.                                          *)

NUL == 0

\* Display of a non-negative integer: its decimal digits
RECURSIVE digits(_)
digits(n) == IF n < 10 THEN <<48 + n>> ELSE digits(n \div 10) \o <<48 + (n % 10)>>

\* Display of an i32 (`{}`): '-' and the magnitude's digits when negative.
\* The magnitude is taken digit by digit, so that i32::MIN has one.
fmt_i32(n) ==
    IF n >= 0 THEN digits(n)
    ELSE LET d == (10 - (n % 10)) % 10
             q == 0 - ((n + d) \div 10)
         IN  <<45>> \o (IF q = 0 THEN <<>> ELSE digits(q)) \o <<48 + d>>

\* Display of an f64 (`{}`) holding an integral value: no fraction is printed
fmt_f64(n) == fmt_i32(n)

\* lines 295-307: the downcast chain; a type none of the downcasts matches
\* (i64 among them) falls to the last branch
make_field(x) ==
    IF x.ty = "bool" THEN fmt_i32(IF x.v THEN 1 ELSE 0) \o <<NUL>>
    ELSE IF x.ty = "String" THEN x.v \o <<NUL>>
    ELSE IF x.ty = "str" THEN x.v \o <<NUL>>
    ELSE IF x.ty = "f64" THEN fmt_f64(x.v) \o <<NUL>>
    ELSE IF x.ty = "i32" THEN fmt_i32(x.v) \o <<NUL>>
    ELSE <<>>

\* str::split(char): the pieces between the separators, empty ones kept;
\* a string without separator is one piece
RECURSIVE split(_, _)
split(str, sep) ==
    IF \A i \in 1..Len(str) : str[i] # sep
    THEN <<str>>
    ELSE LET i == CHOOSE j \in 1..Len(str) :
                      /\ str[j] = sep
                      /\ \A k \in 1..(j - 1) : str[k] # sep
         IN  <<SubSeq(str, 1, i - 1)>> \o split(SubSeq(str, i + 1, Len(str)), sep)

\* line 283: fields.remove(fields.len() - 1)
\* (variant: the last piece is kept)
keep_last(parts) == parts

remove_last(parts) == SubSeq(parts, 1, Len(parts) - 1)

read_fields(str) ==
    LET parts == split(str, NUL)
    IN  IF Len(parts) = 0
        THEN [kind |-> "panic", v |-> <<>>]
        ELSE [kind |-> "ret", v |-> remove_last(parts)]

I32Min == -2147483647 - 1
I32Max == 2147483647

FieldChars == {65, 66}
Strings == SeqsUpTo(FieldChars, MaxFieldLen)
I32Vals == {0, 1, -1, 7, 10, -10, 105, -2005, I32Max, I32Min}
I64Vals == {0, 1, -1, 10, I32Max}
F64Vals == {0, 1, -2}

FieldValues ==
    [ty : {"bool"}, v : BOOLEAN] \cup [ty : {"String", "str"}, v : Strings]
    \cup [ty : {"i32"}, v : I32Vals] \cup [ty : {"i64"}, v : I64Vals]
    \cup [ty : {"f64"}, v : F64Vals]

RECURSIVE Concat(_)
Concat(ss) == IF ss = <<>> THEN <<>> ELSE ss[1] \o Concat(Tail(ss))

\* make_field(v) on one typed value
FormatOne ==
    /\ pc = "idle"
    /\ \E x \in FieldValues :
        /\ val' = x
        /\ payload' = make_field(x)
    /\ pc' = "formatted"
    /\ UNCHANGED <<vals, fields, frameVars, pairVars, recvVars, regVars>>

\* make_field(s1) ++ ... ++ make_field(sn) for strings s1..sn
BuildPayload ==
    /\ pc = "idle"
    /\ \E ss \in SeqsUpTo(Strings, MaxFields), t \in {"String", "str"} :
        /\ vals' = [i \in 1..Len(ss) |-> [ty |-> t, v |-> ss[i]]]
        /\ payload' = Concat([i \in 1..Len(ss) |-> make_field([ty |-> t, v |-> ss[i]])])
    /\ pc' = "built"
    /\ UNCHANGED <<val, fields, frameVars, pairVars, recvVars, regVars>>

\* read_fields on the payload just built
Tokenize ==
    /\ pc = "built"
    /\ fields' = read_fields(payload)
    /\ pc' = "tokenized"
    /\ UNCHANGED <<val, vals, payload, frameVars, pairVars, recvVars, regVars>>

\* read_fields on any text a frame carried
TokenizeRaw ==
    /\ pc = "idle"
    /\ \E str \in SeqsUpTo(FieldChars \cup {NUL}, MaxRawLen) :
        /\ payload' = str
        /\ fields' = read_fields(str)
    /\ pc' = "rawtokenized"
    /\ UNCHANGED <<val, vals, frameVars, pairVars, recvVars, regVars>>

FieldNext == FormatOne \/ BuildPayload \/ Tokenize \/ TokenizeRaw

FieldSpec == Init /\ [][FieldNext]_vars

---------------------------------------------------------------------------
(* Claims about the field codec *)

IsDigit(c) == c >= 48 /\ c <= 57

\* the value of a digit string read as the magnitude of a number of sign sg
RECURSIVE DecValue(_, _, _)
DecValue(ds, sg, acc) ==
    IF ds = <<>> THEN acc
    ELSE DecValue(Tail(ds), sg, acc * 10 + sg * (ds[1] - 48))

\* t is the canonical decimal text of n: an optional '-', then digits with
\* no leading zero, spelling n
CanonicalDecimal(t, n) ==
    LET ds == IF n < 0 THEN Tail(t) ELSE t
    IN  /\ t # <<>>
        /\ n < 0 => t[1] = 45
        /\ ds # <<>>
        /\ \A i \in 1..Len(ds) : IsDigit(ds[i])
        /\ Len(ds) > 1 => ds[1] # 48
        /\ DecValue(ds, IF n < 0 THEN -1 ELSE 1, 0) = n

\* s is a text without NUL followed by exactly one NUL
TerminatedOnce(s) ==
    /\ s # <<>>
    /\ s[Len(s)] = NUL
    /\ \A i \in 1..(Len(s) - 1) : s[i] # NUL

FieldText(s) == SubSeq(s, 1, Len(s) - 1)

\* C5: for every Bool, Int32, Int64 and NUL-free String value, make_field
\* returns a NUL-free text followed by exactly one NUL: "1" / "0" for a
\* bool, the canonical decimal text for an Int32 and for an Int64, the
\* string itself for a String.
C5_FieldFormatting ==
    (pc = "formatted" /\ val.ty \in {"bool", "i32", "i64", "String"}) =>
        /\ TerminatedOnce(payload)
        /\ val.ty = "bool" => FieldText(payload) = (IF val.v THEN <<49>> ELSE <<48>>)
        /\ val.ty \in {"i32", "i64"} => CanonicalDecimal(FieldText(payload), val.v)
        /\ val.ty = "String" => FieldText(payload) = val.v

\* C6: read_fields of make_field(s1) ++ ... ++ make_field(sn), n >= 0, the
\* si NUL-free and possibly empty, is exactly [s1, ..., sn] in that order.
C6_TokenizeLossless ==
    pc = "tokenized" =>
        /\ fields.kind = "ret"
        /\ fields.v = [i \in 1..Len(vals) |-> vals[i].v]

C6_Witness ==
    /\ pc = "tokenized"
    /\ Len(vals) = 3
    /\ vals[1].v = <<65, 66>> /\ vals[2].v = <<>> /\ vals[3].v = <<66>>
    /\ fields.v = <<<<65, 66>>, <<>>, <<66>>>>

\* the text after the last NUL of s (all of s when it has none)
RECURSIVE AfterLastNul(_)
AfterLastNul(s) ==
    IF s = <<>> \/ s[Len(s)] = NUL THEN <<>>
    ELSE AfterLastNul(SubSeq(s, 1, Len(s) - 1)) \o <<s[Len(s)]>>

\* C7: for a non-empty payload whose last character is not NUL, read_fields
\* fails, or returns a sequence whose last field is the text after the last
\* NUL.
C7_NoSilentDrop ==
    (/\ pc = "rawtokenized"
     /\ payload # <<>>
     /\ payload[Len(payload)] # NUL) =>
        \/ fields.kind = "panic"
        \/ /\ fields.v # <<>>
           /\ fields.v[Len(fields.v)] = AfterLastNul(payload)

---------------------------------------------------------------------------
(* The message-id enumerations, in declaration order, and the conversions  *)
(* #[derive(FromPrimitive)] and `as i32` give them                         *)

IncomingMessageIds ==
  <<
    [name |-> "TickPrice", code |-> 1],
    [name |-> "TickSize", code |-> 2],
    [name |-> "OrderStatus", code |-> 3],
    [name |-> "ErrMsg", code |-> 4],
    [name |-> "OpenOrder", code |-> 5],
    [name |-> "AcctValue", code |-> 6],
    [name |-> "PortfolioValue", code |-> 7],
    [name |-> "AcctUpdateTime", code |-> 8],
    [name |-> "NextValidId", code |-> 9],
    [name |-> "ContractData", code |-> 10],
    [name |-> "ExecutionData", code |-> 11],
    [name |-> "MarketDepth", code |-> 12],
    [name |-> "MarketDepthL2", code |-> 13],
    [name |-> "NewsBulletins", code |-> 14],
    [name |-> "ManagedAccts", code |-> 15],
    [name |-> "ReceiveFa", code |-> 16],
    [name |-> "HistoricalData", code |-> 17],
    [name |-> "BondContractData", code |-> 18],
    [name |-> "ScannerParameters", code |-> 19],
    [name |-> "ScannerData", code |-> 20],
    [name |-> "TickOptionComputation", code |-> 21],
    [name |-> "TickGeneric", code |-> 45],
    [name |-> "TickString", code |-> 46],
    [name |-> "TickEfp", code |-> 47],
    [name |-> "CurrentTime", code |-> 49],
    [name |-> "RealTimeBars", code |-> 50],
    [name |-> "FundamentalData", code |-> 51],
    [name |-> "ContractDataEnd", code |-> 52],
    [name |-> "OpenOrderEnd", code |-> 53],
    [name |-> "AcctDownloadEnd", code |-> 54],
    [name |-> "ExecutionDataEnd", code |-> 55],
    [name |-> "DeltaNeutralValidation", code |-> 56],
    [name |-> "TickSnapshotEnd", code |-> 57],
    [name |-> "MarketDataType", code |-> 58],
    [name |-> "CommissionReport", code |-> 59],
    [name |-> "PositionData", code |-> 61],
    [name |-> "PositionEnd", code |-> 62],
    [name |-> "AccountSummary", code |-> 63],
    [name |-> "AccountSummaryEnd", code |-> 64],
    [name |-> "VerifyMessageApi", code |-> 65],
    [name |-> "VerifyCompleted", code |-> 66],
    [name |-> "DisplayGroupList", code |-> 67],
    [name |-> "DisplayGroupUpdated", code |-> 68],
    [name |-> "VerifyAndAuthMessageApi", code |-> 69],
    [name |-> "VerifyAndAuthCompleted", code |-> 70],
    [name |-> "PositionMulti", code |-> 71],
    [name |-> "PositionMultiEnd", code |-> 72],
    [name |-> "AccountUpdateMulti", code |-> 73],
    [name |-> "AccountUpdateMultiEnd", code |-> 74],
    [name |-> "SecurityDefinitionOptionParameter", code |-> 75],
    [name |-> "SecurityDefinitionOptionParameterEnd", code |-> 76],
    [name |-> "SoftDollarTiers", code |-> 77],
    [name |-> "FamilyCodes", code |-> 78],
    [name |-> "SymbolSamples", code |-> 79],
    [name |-> "MktDepthExchanges", code |-> 80],
    [name |-> "TickReqParams", code |-> 81],
    [name |-> "SmartComponents", code |-> 82],
    [name |-> "NewsArticle", code |-> 83],
    [name |-> "TickNews", code |-> 84],
    [name |-> "NewsProviders", code |-> 85],
    [name |-> "HistoricalNews", code |-> 86],
    [name |-> "HistoricalNewsEnd", code |-> 87],
    [name |-> "HeadTimestamp", code |-> 88],
    [name |-> "HistogramData", code |-> 89],
    [name |-> "HistoricalDataUpdate", code |-> 90],
    [name |-> "RerouteMktDataReq", code |-> 91],
    [name |-> "RerouteMktDepthReq", code |-> 92],
    [name |-> "MarketRule", code |-> 93],
    [name |-> "Pnl", code |-> 94],
    [name |-> "PnlSingle", code |-> 95],
    [name |-> "HistoricalTicks", code |-> 96],
    [name |-> "HistoricalTicksBidAsk", code |-> 97],
    [name |-> "HistoricalTicksLast", code |-> 98],
    [name |-> "TickByTick", code |-> 99],
    [name |-> "OrderBound", code |-> 100],
    [name |-> "CompletedOrder", code |-> 101],
    [name |-> "CompletedOrdersEnd", code |-> 102]
  >>

OutgoingMessageIds ==
  <<
    [name |-> "ReqMktData", code |-> 1],
    [name |-> "CancelMktData", code |-> 2],
    [name |-> "PlaceOrder", code |-> 3],
    [name |-> "CancelOrder", code |-> 4],
    [name |-> "ReqOpenOrders", code |-> 5],
    [name |-> "ReqAcctData", code |-> 6],
    [name |-> "ReqExecutions", code |-> 7],
    [name |-> "ReqIds", code |-> 8],
    [name |-> "ReqContractData", code |-> 9],
    [name |-> "ReqMktDepth", code |-> 10],
    [name |-> "CancelMktDepth", code |-> 11],
    [name |-> "ReqNewsBulletins", code |-> 12],
    [name |-> "CancelNewsBulletins", code |-> 13],
    [name |-> "SetServerLoglevel", code |-> 14],
    [name |-> "ReqAutoOpenOrders", code |-> 15],
    [name |-> "ReqAllOpenOrders", code |-> 16],
    [name |-> "ReqManagedAccts", code |-> 17],
    [name |-> "ReqFa", code |-> 18],
    [name |-> "ReplaceFa", code |-> 19],
    [name |-> "ReqHistoricalData", code |-> 20],
    [name |-> "ExerciseOptions", code |-> 21],
    [name |-> "ReqScannerSubscription", code |-> 22],
    [name |-> "CancelScannerSubscription", code |-> 23],
    [name |-> "ReqScannerParameters", code |-> 24],
    [name |-> "CancelHistoricalData", code |-> 25],
    [name |-> "ReqCurrentTime", code |-> 49],
    [name |-> "ReqRealTimeBars", code |-> 50],
    [name |-> "CancelRealTimeBars", code |-> 51],
    [name |-> "ReqFundamentalData", code |-> 52],
    [name |-> "CancelFundamentalData", code |-> 53],
    [name |-> "ReqCalcImpliedVolat", code |-> 54],
    [name |-> "ReqCalcOptionPrice", code |-> 55],
    [name |-> "CancelCalcImpliedVolat", code |-> 56],
    [name |-> "CancelCalcOptionPrice", code |-> 57],
    [name |-> "ReqGlobalCancel", code |-> 58],
    [name |-> "ReqMarketDataType", code |-> 59],
    [name |-> "ReqPositions", code |-> 61],
    [name |-> "ReqAccountSummary", code |-> 62],
    [name |-> "CancelAccountSummary", code |-> 63],
    [name |-> "CancelPositions", code |-> 64],
    [name |-> "VerifyRequest", code |-> 65],
    [name |-> "VerifyMessage", code |-> 66],
    [name |-> "QueryDisplayGroups", code |-> 67],
    [name |-> "SubscribeToGroupEvents", code |-> 68],
    [name |-> "UpdateDisplayGroup", code |-> 69],
    [name |-> "UnsubscribeFromGroupEvents", code |-> 70],
    [name |-> "StartApi", code |-> 71],
    [name |-> "VerifyAndAuthRequest", code |-> 72],
    [name |-> "VerifyAndAuthMessage", code |-> 73],
    [name |-> "ReqPositionsMulti", code |-> 74],
    [name |-> "CancelPositionsMulti", code |-> 75],
    [name |-> "ReqAccountUpdatesMulti", code |-> 76],
    [name |-> "CancelAccountUpdatesMulti", code |-> 77],
    [name |-> "ReqSecDefOptParams", code |-> 78],
    [name |-> "ReqSoftDollarTiers", code |-> 79],
    [name |-> "ReqFamilyCodes", code |-> 80],
    [name |-> "ReqMatchingSymbols", code |-> 81],
    [name |-> "ReqMktDepthExchanges", code |-> 82],
    [name |-> "ReqSmartComponents", code |-> 83],
    [name |-> "ReqNewsArticle", code |-> 84],
    [name |-> "ReqNewsProviders", code |-> 85],
    [name |-> "ReqHistoricalNews", code |-> 86],
    [name |-> "ReqHeadTimestamp", code |-> 87],
    [name |-> "ReqHistogramData", code |-> 88],
    [name |-> "CancelHistogramData", code |-> 89],
    [name |-> "CancelHeadTimestamp", code |-> 90],
    [name |-> "ReqMarketRule", code |-> 91],
    [name |-> "ReqPnl", code |-> 92],
    [name |-> "CancelPnl", code |-> 93],
    [name |-> "ReqPnlSingle", code |-> 94],
    [name |-> "CancelPnlSingle", code |-> 95],
    [name |-> "ReqHistoricalTicks", code |-> 96],
    [name |-> "ReqTickByTickData", code |-> 97],
    [name |-> "CancelTickByTickData", code |-> 98],
    [name |-> "ReqCompletedOrders", code |-> 99]
  >>

\* FromPrimitive::from_i32, as derived: the first variant whose discriminant
\* equals n, else None
\* (variant: an unknown code falls back to the first variant)
from_i32_or_first(T, n) ==
    IF \E i \in 1..Len(T) : T[i].code = n
    THEN T[CHOOSE i \in 1..Len(T) :
               T[i].code = n /\ \A j \in 1..(i - 1) : T[j].code # n].name
    ELSE T[1].name

from_i32(T, n) ==
    IF \E i \in 1..Len(T) : T[i].code = n
    THEN T[CHOOSE i \in 1..Len(T) :
               T[i].code = n /\ \A j \in 1..(i - 1) : T[j].code # n].name
    ELSE "None"

\* `variant as i32`: the discriminant of the i-th declared variant
as_i32(T, i) == T[i].code

\* the i32 codes looked up: a range around the tables, and the two extremes
Codes == ((0 - MaxNegCode)..MaxCode) \cup {I32Min, I32Max}

Table(d) == IF d = "incoming" THEN IncomingMessageIds ELSE OutgoingMessageIds

\* IncomingMessageIds::from_i32(n) / OutgoingMessageIds::from_i32(n)
Lookup ==
    /\ pc = "idle"
    /\ \E d \in {"incoming", "outgoing"}, n \in Codes :
        /\ dir' = d
        /\ code' = n
        /\ kind' = from_i32(Table(d), n)
    /\ variant' = "None"
    /\ pc' = "looked"
    /\ UNCHANGED <<frameVars, pairVars, recvVars, fieldVars>>

\* from_i32(k as i32) for a variant k of either enumeration
CodeOfThenLookup ==
    /\ pc = "idle"
    /\ \E d \in {"incoming", "outgoing"} :
        \E i \in 1..Len(Table(d)) :
            /\ dir' = d
            /\ variant' = Table(d)[i].name
            /\ code' = as_i32(Table(d), i)
            /\ kind' = from_i32(Table(d), as_i32(Table(d), i))
    /\ pc' = "converted"
    /\ UNCHANGED <<frameVars, pairVars, recvVars, fieldVars>>

RegistryNext == Lookup \/ CodeOfThenLookup

RegistrySpec == Init /\ [][RegistryNext]_vars

---------------------------------------------------------------------------
(* Claims about the registry *)

\* the codes each direction defines, as ranges
IncomingCodes == (1..21) \cup (45..47) \cup (49..59) \cup (61..102)
OutgoingCodes == (1..25) \cup (49..59) \cup (61..99)

Names(T) == {T[i].name : i \in 1..Len(T)}

OneToOne(T) ==
    \A i, j \in 1..Len(T) :
        (T[i].code = T[j].code \/ T[i].name = T[j].name) => i = j

\* C8: in each direction codes and kinds correspond one to one, so the
\* code of a kind looks up that kind; a code outside the direction's table
\* (0, negative codes, a gap, a code above the last one) looks up None; a
\* lookup answers from its own direction's table only.
C8_RegistryRoundTrip ==
    /\ OneToOne(IncomingMessageIds) /\ OneToOne(OutgoingMessageIds)
    /\ Names(IncomingMessageIds) \cap Names(OutgoingMessageIds) = {}
    /\ pc = "converted" => kind = variant
    /\ (pc = "looked" /\ dir = "incoming") =>
          /\ code \notin IncomingCodes <=> kind = "None"
          /\ kind \in Names(IncomingMessageIds) \cup {"None"}
    /\ (pc = "looked" /\ dir = "outgoing") =>
          /\ code \notin OutgoingCodes <=> kind = "None"
          /\ kind \in Names(OutgoingMessageIds) \cup {"None"}
    /\ (pc = "looked" /\ code = 1) =>
          kind = (IF dir = "incoming" THEN "TickPrice" ELSE "ReqMktData")

C8_Witness ==
    /\ pc = "looked"
    /\ dir = "incoming"
    /\ code = 48
    /\ kind = "None"

---------------------------------------------------------------------------
(* Every call of the module, from the initial state *)

Next == FrameNext \/ PairNext \/ RecvNext \/ FieldNext \/ RegistryNext

Spec == Init /\ [][Next]_vars

=============================================================================
